---- MODULE Spec2Model ----
(***************************************************************************)
(* A model of the IoT sensor data API of src/server.js: the ingestion      *)
(* handler POST /api/data, the query handlers GET /api/data, /api/devices, *)
(* /api/logs, /api/stats, the cleanup handler DELETE /api/data/cleanup,    *)
(* and the three in-memory collections they share (devices, sensorData,    *)
(* connectionLogs).                                                        *)
(*                                                                         *)
(* JavaScript values are tagged records, so that truthiness (!x), strict   *)
(* equality and parseFloat/parseInt are computed as the runtime computes   *)
(* them.  Time is an integer clock `now` (milliseconds in the code, ticks  *)
(* here); an ISO timestamp string round-trips through new Date(...)        *)
(* exactly at that resolution and is kept as the integer it denotes.       *)
(***************************************************************************)
EXTENDS Integers, Sequences, FiniteSets, TLC

(***************************************************************************)
(* Program constants.  The capacities and limits of the code are scaled    *)
(* down, keeping their order (DefaultLimit < MaxLimit < StoreCapacity,     *)
(* RecentLogs < LogCapacity), so that every one of them is exceeded within *)
(* the bounds of the model.                                                *)
(***************************************************************************)
\* if (sensorData.length > 1000) sensorData.shift()            (1000 in the code)
StoreCapacity == 3
\* if (connectionLogs.length > 100) connectionLogs.shift()      (100 in the code)
LogCapacity == 4
\* Math.min(parseInt(limit), 500)                               (500 in the code)
MaxLimit == 2
\* const { device_id, limit = 50, offset = 0 } = req.query      (50 in the code)
DefaultLimit == 1
\* offset = 0 of the same line
DefaultOffset == 0
\* connectionLogs.slice(-50)                                    (50 in the code)
RecentLogs == 2
\* temp < -50 || temp > 100 || hum < 0 || hum > 100
TempMin == -50
TempMax == 100
HumMin == 0
HumMax == 100
\* 60 * 60 * 1000 and 24 * 60 * 60 * 1000 milliseconds, in ticks
OneHour == 1
OneDay == 2
\* const { days = 7 } = req.query                               (7 in the code)
DefaultDays == 2

(***************************************************************************)
(* Bounds of the model.                                                    *)
(***************************************************************************)
\* the clock stops advancing at MaxTime
MaxTime == 2
\* readings are submitted until MaxAccepted of them have been accepted
MaxAccepted == 4
\* the wide request set is submitted while the log holds fewer entries than this
MaxIngestLogs == 2
\* the stores that are queried hold up to MaxQueried readings
MaxQueried == 3
\* the registry is exercised until MaxRegistered readings have been accepted
MaxRegistered == 3

(***************************************************************************)
(* JavaScript values.                                                      *)
(***************************************************************************)
JSUndefined == [kind |-> "undefined"]
JSStr(s) == [kind |-> "string", str |-> s]
\* a string whose characters matter (it is handed to parseFloat / parseInt)
JSChars(cs) == [kind |-> "string", chars |-> cs]
JSNum(n) == [kind |-> "number", num |-> n]
NaN == [kind |-> "number", nan |-> TRUE]

IsNaN(v) == v.kind = "number" /\ "nan" \in DOMAIN v

\* ToBoolean: undefined, "", 0 and NaN are falsy
Truthy(v) ==
  CASE v.kind = "undefined" -> FALSE
    [] v.kind = "string" -> IF "chars" \in DOMAIN v THEN v.chars # <<>> ELSE v.str # ""
    [] v.kind = "number" -> IF IsNaN(v) THEN FALSE ELSE v.num # 0
    [] OTHER -> TRUE

IsDigit(c) == c \in {"0", "1", "2", "3", "4", "5", "6", "7", "8", "9"}

DigitVal(c) ==
  CASE c = "0" -> 0 [] c = "1" -> 1 [] c = "2" -> 2 [] c = "3" -> 3 [] c = "4" -> 4
    [] c = "5" -> 5 [] c = "6" -> 6 [] c = "7" -> 7 [] c = "8" -> 8 [] c = "9" -> 9

RECURSIVE SkipSpaces(_)
SkipSpaces(cs) == IF cs # <<>> /\ Head(cs) = " " THEN SkipSpaces(Tail(cs)) ELSE cs

RECURSIVE DigitPrefix(_)
DigitPrefix(cs) ==
  IF cs # <<>> /\ IsDigit(Head(cs)) THEN <<Head(cs)>> \o DigitPrefix(Tail(cs)) ELSE <<>>

RECURSIVE DigitsValue(_, _)
DigitsValue(cs, acc) ==
  IF cs = <<>> THEN acc ELSE DigitsValue(Tail(cs), 10 * acc + DigitVal(Head(cs)))

\* The numeric prefix of a string: leading blanks, an optional sign, then the
\* longest run of digits; NaN when there is no digit.  (Fractions and exponents
\* are outside the bounded input sets.)
ParseNumericPrefix(cs0) ==
  LET cs == SkipSpaces(cs0)
      neg == cs # <<>> /\ Head(cs) = "-"
      signed == cs # <<>> /\ Head(cs) \in {"-", "+"}
      rest == IF signed THEN Tail(cs) ELSE cs
      ds == DigitPrefix(rest)
  IN IF ds = <<>> THEN NaN
     ELSE JSNum(IF neg THEN 0 - DigitsValue(ds, 0) ELSE DigitsValue(ds, 0))

\* parseFloat(v): the argument is converted to a string and its numeric prefix
\* is parsed; a number prints and parses back to itself, "undefined" has none.
ParseFloat(v) ==
  CASE v.kind = "number" -> v
    [] v.kind = "string" /\ "chars" \in DOMAIN v -> ParseNumericPrefix(v.chars)
    [] OTHER -> NaN

\* parseInt(v): as parseFloat on the inputs of the model (integers only)
ParseInt(v) ==
  CASE v.kind = "number" -> v
    [] v.kind = "string" /\ "chars" \in DOMAIN v -> ParseNumericPrefix(v.chars)
    [] OTHER -> NaN

Min(a, b) == IF a < b THEN a ELSE b
Max(a, b) == IF a > b THEN a ELSE b

\* a + b and Math.min(a, b) on numbers: NaN is contagious
JSAdd(a, b) == IF IsNaN(a) \/ IsNaN(b) THEN NaN ELSE JSNum(a.num + b.num)
JSMin(a, b) == IF IsNaN(a) \/ IsNaN(b) THEN NaN ELSE JSNum(Min(a.num, b.num))

\* The index Array.prototype.slice makes of an argument: NaN counts as 0, a
\* negative index counts from the end, and the result is clamped to 0..len.
RelIndex(v, len) ==
  IF IsNaN(v) THEN 0
  ELSE IF v.num < 0 THEN Max(len + v.num, 0) ELSE Min(v.num, len)

\* Array.prototype.slice(start, end), on a 1-based sequence
Slice(s, start, end) ==
  LET k == RelIndex(start, Len(s))
      f == RelIndex(end, Len(s))
  IN IF k >= f THEN <<>> ELSE SubSeq(s, k + 1, f)

\* Array.prototype.reverse
Reverse(s) == [i \in 1..Len(s) |-> s[Len(s) + 1 - i]]

(***************************************************************************)
(* State.                                                                  *)
(***************************************************************************)
VARIABLES
  phase,          \* "boot" | "running" | "exited": the position of the process
  API_KEY,        \* process.env.API_KEY
  now,            \* the clock read by new Date() / Date.now()
  devices,        \* the registry: a function from device ids to metadata
  sensorData,     \* the reading store, oldest first
  connectionLogs, \* the connection log, oldest first
  req,            \* the request handled last
  res,            \* the response sent last
  recorded,       \* history: the log entries the last handler recorded, in order
  accepted,       \* history: the readings appended by accepted submits, in order
  cleaned         \* history: whether a cleanup request has been handled

vars == <<phase, API_KEY, now, devices, sensorData, connectionLogs, req, res,
          recorded, accepted, cleaned>>

(***************************************************************************)
(* Inputs.                                                                 *)
(***************************************************************************)
Secret == JSStr("secret123")

\* process.env.API_KEY: unset, set to the empty string, or set
KeyConfigs == {JSUndefined, JSStr(""), Secret}

\* the X-API-Key header: absent, empty, right, wrong
Credentials == {JSUndefined, JSStr(""), Secret, JSStr("wrong")}

KnownDevice == "DEADBEEF0001"
NewDevice == "NEWDEV01"

\* the suffix Math.random().toString(36).substr(2, 9) of a generated id
RandSuffixes == {"k3x", "q9z"}
\* the one suffix drawn where the store is filled to capacity
NarrowSuffixes == {"k3x"}

ClientIP == "10.0.0.7"

\* a request to POST /api/data as the transport delivers it
SubmitRequest(apikey, ua, body) ==
  [route |-> "POST /api/data", apikey |-> apikey, userAgent |-> ua, ip |-> ClientIP,
   body |-> body]

Body(device_id, device_name, sensor, temperature, humidity, ts) ==
  [kind |-> "object", device_id |-> device_id, device_name |-> device_name,
   sensor |-> sensor, temperature |-> temperature, humidity |-> humidity, ts |-> ts]

\* The payload probes: every combination of absent, falsy, well-formed and
\* ill-formed required fields, and a request without a body.
ProbeBodies ==
  {JSUndefined} \cup
  {Body(d, JSUndefined, s, t, h, JSUndefined) :
     d \in {JSUndefined, JSStr(""), JSStr(KnownDevice), JSStr(NewDevice)},
     s \in {JSUndefined, JSStr(""), JSStr("dht11")},
     t \in {JSUndefined, JSNum(0), JSNum(150), JSChars(<<"2", "2">>), JSChars(<<"a", "b">>)},
     h \in {JSUndefined, JSNum(0), JSNum(120), JSChars(<<"x">>)}}

\* The credential probes: a request without a body, a well-formed reading, one
\* with a field missing and one with a field that is no number.
AuthBodies ==
  {JSUndefined,
   Body(JSStr(NewDevice), JSUndefined, JSStr("dht11"), JSNum(22), JSNum(55), JSUndefined),
   Body(JSUndefined, JSUndefined, JSStr("dht11"), JSNum(22), JSNum(55), JSUndefined),
   Body(JSStr(NewDevice), JSUndefined, JSStr("dht11"), JSChars(<<"a", "b">>), JSNum(55),
        JSUndefined)}

\* The optional fields: device_name, ts and the User-Agent header.
OptionBodies ==
  {Body(JSStr(d), n, JSStr("dht11"), JSNum(22), JSNum(55), ts) :
     d \in {KnownDevice, NewDevice},
     n \in {JSUndefined, JSStr("Probe")},
     ts \in {JSUndefined, JSStr("2025-01-01T00:00:00Z")}}

\* The wide request set
WideRequests ==
  {SubmitRequest(Secret, JSUndefined, b) : b \in ProbeBodies}
  \cup {SubmitRequest(k, JSUndefined, b) : k \in Credentials, b \in AuthBodies}
  \cup {SubmitRequest(Secret, ua, b) :
          ua \in {JSUndefined, JSStr("ESP8266HTTPClient")}, b \in OptionBodies}

\* The narrow request set: well-formed readings of two devices, in and out of
\* range, with the right credential, and one request with a wrong credential.
NarrowBodies ==
  {Body(JSStr(d), JSUndefined, JSStr("dht11"), t, JSNum(0), JSUndefined) :
     d \in {KnownDevice, NewDevice}, t \in {JSNum(0), JSNum(150)}}

NarrowRequests ==
  {SubmitRequest(Secret, JSStr("ESP8266HTTPClient"), b) : b \in NarrowBodies}
  \cup {SubmitRequest(JSStr("wrong"), JSStr("ESP8266HTTPClient"), JSUndefined)}

\* a well-formed reading with the right credential
Reading(d, t, h) ==
  SubmitRequest(Secret, JSStr("ESP8266HTTPClient"),
                Body(JSStr(d), JSUndefined, JSStr("dht11"), t, h, JSUndefined))

\* The basic request set: an in-range reading of the pre-registered device and
\* an out-of-range reading of a new device.
BasicRequests == {Reading(KnownDevice, JSNum(0), JSNum(0)), Reading(NewDevice, JSNum(150), JSNum(0))}

\* The request set of the queried stores: one reading of the pre-registered
\* device and two different readings of a new device.
QueriedRequests ==
  {Reading(KnownDevice, JSNum(0), JSNum(0)),
   Reading(NewDevice, JSChars(<<"2", "2">>), JSNum(55)),
   Reading(NewDevice, JSNum(150), JSNum(0))}

\* a device id that names a property every object inherits from Object.prototype
InheritedDevice == "constructor"

\* The request set of the registry: readings of the pre-registered device, of a
\* new device and of a device whose id is an inherited property name, each
\* with and without a device_name.
RegistryRequests ==
  {SubmitRequest(Secret, JSStr("ESP8266HTTPClient"),
                 Body(JSStr(d), n, JSStr("dht11"), JSNum(22), JSNum(55), JSUndefined)) :
     d \in {KnownDevice, NewDevice, InheritedDevice},
     n \in {JSUndefined, JSStr("Probe")}}

NoRequest == [route |-> "none"]
NoResponse == [status |-> 0]

(***************************************************************************)
(* Startup: lines 18-45.                                                   *)
(***************************************************************************)
\* const devices = { "DEADBEEF0001": {...}, "C4D8D539D335": {...} }
PreRegistered(t) ==
  [d \in {KnownDevice, "C4D8D539D335"} |->
     [name |-> <<"Greenhouse_Node_1">>, location |-> "Greenhouse-01", registeredAt |-> t]]

Init ==
  /\ phase = "boot"
  /\ API_KEY \in KeyConfigs
  /\ now = 0
  /\ devices = PreRegistered(0)
  /\ sensorData = <<>>
  /\ connectionLogs = <<>>
  /\ req = NoRequest
  /\ res = NoResponse
  /\ recorded = <<>>
  /\ accepted = <<>>
  /\ cleaned = FALSE

\* StartupPhase without the check of lines 24-27: the service runs open
StartupPhaseOpen(key) == "running"

\* if (!API_KEY) { console.error(...); process.exit(1); } ... app.listen(...)
StartupPhase(key) == IF ~Truthy(key) THEN "exited" ELSE "running"

Startup ==
  /\ phase = "boot"
  /\ phase' = StartupPhase(API_KEY)
  /\ UNCHANGED <<API_KEY, now, devices, sensorData, connectionLogs, req, res,
                 recorded, accepted, cleaned>>

\* time passes between two requests
Tick ==
  /\ phase = "running"
  /\ now < MaxTime
  /\ now' = now + 1
  /\ UNCHANGED <<phase, API_KEY, devices, sensorData, connectionLogs, req, res,
                 recorded, accepted, cleaned>>

(***************************************************************************)
(* logConnection: lines 48-65.                                             *)
(***************************************************************************)
LogEntry(r, status, message) ==
  [timestamp |-> now,
   ip |-> r.ip,
   userAgent |-> IF Truthy(r.userAgent) THEN r.userAgent ELSE JSStr("Unknown"),
   status |-> status,
   message |-> message,
   apiKey |-> IF Truthy(r.apikey) THEN "Present" ELSE "Missing"]

\* PushLog without the shift of lines 60-62
PushLogNoShift(logs, log) == Append(logs, log)

\* connectionLogs.push(log); if (connectionLogs.length > 100) connectionLogs.shift()
PushLog(logs, log) ==
  LET pushed == Append(logs, log)
  IN IF Len(pushed) > LogCapacity THEN Tail(pushed) ELSE pushed

logConnection(logs, r, status, message) == PushLog(logs, LogEntry(r, status, message))

(***************************************************************************)
(* POST /api/data: lines 105-216.                                          *)
(***************************************************************************)
\* AuthFailure without the comparison of line 124: any key passes
AuthFailureAnyKey(apikey, key) == IF ~Truthy(apikey) THEN "Missing API key" ELSE ""

\* lines 116-130: the message of the failed API key check, "" when it passes
AuthFailure(apikey, key) ==
  IF ~Truthy(apikey) THEN "Missing API key"
  ELSE IF apikey # key THEN "Invalid API key"
  ELSE ""

\* line 135: !device_id || !sensor || temperature === undefined || humidity === undefined
MissingFields(b) ==
  \/ ~Truthy(b.device_id)
  \/ ~Truthy(b.sensor)
  \/ b.temperature = JSUndefined
  \/ b.humidity = JSUndefined

\* OutOfRange without the humidity comparisons of line 159
OutOfRangeTempOnly(temp, hum) ==
  \/ temp.num < TempMin
  \/ temp.num > TempMax

\* line 159: temp < -50 || temp > 100 || hum < 0 || hum > 100
OutOfRange(temp, hum) ==
  \/ temp.num < TempMin
  \/ temp.num > TempMax
  \/ hum.num < HumMin
  \/ hum.num > HumMax

\* Properties every object inherits from Object.prototype: devices[k] is truthy
\* for them although k is no key of the registry.
ObjectPrototypeKeys == {"constructor", "toString", "valueOf", "hasOwnProperty", "__proto__"}

\* the property key a value is converted to
PropertyKey(v) == v.str

\* HasDevice without the lookup of line 165: every submit registers its device
HasDeviceNever(devs, k) == FALSE

\* devices[device_id] is truthy
HasDevice(devs, k) == k \in DOMAIN devs \/ k \in ObjectPrototypeKeys

\* devices[device_id]
DeviceMeta(devs, k) == IF k \in DOMAIN devs THEN devs[k] ELSE [inherited |-> k]

\* lines 166-171: the metadata of an auto-registered device
AutoRegistered(b) ==
  [name |-> IF Truthy(b.device_name) THEN <<b.device_name.str>>
            ELSE <<"Device-", PropertyKey(b.device_id)>>,
   location |-> "Unknown",
   registeredAt |-> now,
   autoRegistered |-> TRUE]

\* lines 177-187: the data entry
MakeEntry(r, devs, temp, hum, suffix) ==
  [id |-> <<now, suffix>>,
   device_id |-> r.body.device_id,
   device_meta |-> DeviceMeta(devs, PropertyKey(r.body.device_id)),
   sensor |-> r.body.sensor,
   temperature |-> temp,
   humidity |-> hum,
   timestamp |-> IF Truthy(r.body.ts) THEN r.body.ts ELSE [kind |-> "string", iso |-> now],
   received_at |-> now,
   client_ip |-> r.ip]

\* StoreAppend without the shift of lines 193-195
StoreAppendNoEvict(store, entry) == Append(store, entry)

\* StoreAppend with pop() where the code has shift(): past the capacity the
\* newest reading goes, not the oldest
StoreAppendDropNewest(store, entry) ==
  LET pushed == Append(store, entry)
  IN IF Len(pushed) > StoreCapacity THEN SubSeq(pushed, 1, Len(pushed) - 1) ELSE pushed

\* lines 190-195: sensorData.push(entry); if (sensorData.length > 1000) sensorData.shift()
StoreAppend(store, entry) ==
  LET pushed == Append(store, entry)
  IN IF Len(pushed) > StoreCapacity THEN Tail(pushed) ELSE pushed

\* Reject without its logConnection call
RejectSilently(r, status, error, message) ==
  /\ recorded' = <<>>
  /\ res' = [status |-> status, error |-> error]
  /\ req' = r
  /\ UNCHANGED <<phase, API_KEY, now, devices, sensorData, connectionLogs, accepted,
                 cleaned>>

\* Reject with a second logConnection call, as if the catch of lines 208-215
\* ran after an error return
RejectLoggingTwice(r, status, error, message) ==
  /\ connectionLogs' = logConnection(logConnection(connectionLogs, r, "ERROR", message),
                                     r, "ERROR", <<"Server error: ", error>>)
  /\ recorded' = <<LogEntry(r, "ERROR", message),
                   LogEntry(r, "ERROR", <<"Server error: ", error>>)>>
  /\ res' = [status |-> status, error |-> error]
  /\ req' = r
  /\ UNCHANGED <<phase, API_KEY, now, devices, sensorData, accepted, cleaned>>

\* a rejected request: one ERROR log entry and an error response
Reject(r, status, error, message) ==
  /\ connectionLogs' = logConnection(connectionLogs, r, "ERROR", message)
  /\ recorded' = <<LogEntry(r, "ERROR", message)>>
  /\ res' = [status |-> status, error |-> error]
  /\ req' = r
  /\ UNCHANGED <<phase, API_KEY, now, devices, sensorData, accepted, cleaned>>

\* lines 158-206: the path of a request that passed every check
Accept(r, temp, hum, suffix) ==
  LET b == r.body
      k == PropertyKey(b.device_id)
      warn == OutOfRange(temp, hum)
      warning == <<"Data outside expected ranges">>
      logs1 == IF warn THEN logConnection(connectionLogs, r, "WARNING", warning)
               ELSE connectionLogs
      isNew == ~HasDevice(devices, k)
      devs == IF isNew THEN (k :> AutoRegistered(b)) @@ devices ELSE devices
      registered == <<"New device registered: ", k>>
      logs2 == IF isNew THEN logConnection(logs1, r, "INFO", registered) ELSE logs1
      entry == MakeEntry(r, devs, temp, hum, suffix)
      received == <<"Data received from ", k>>
  IN /\ devices' = devs
     /\ sensorData' = StoreAppend(sensorData, entry)
     /\ connectionLogs' = logConnection(logs2, r, "SUCCESS", received)
     /\ recorded' = (IF warn THEN <<LogEntry(r, "WARNING", warning)>> ELSE <<>>)
                    \o (IF isNew THEN <<LogEntry(r, "INFO", registered)>> ELSE <<>>)
                    \o <<LogEntry(r, "SUCCESS", received)>>
     /\ res' = [status |-> 200, success |-> TRUE, message |-> "Data received successfully",
                entry_id |-> entry.id, device_id |-> entry.device_id,
                timestamp |-> entry.received_at]
     /\ req' = r
     /\ accepted' = Append(accepted, entry)
     /\ UNCHANGED <<phase, API_KEY, now, cleaned>>

\* Submit with the field check of line 135 ahead of the key check of lines
\* 116-130
SubmitFieldsFirst(r, suffix) ==
  /\ phase = "running"
  /\ LET auth == AuthFailure(r.apikey, API_KEY)
     IN IF r.body # JSUndefined /\ MissingFields(r.body)
          THEN Reject(r, 400, "Missing required fields", <<"Missing required fields">>)
        ELSE IF auth # "" THEN Reject(r, 401, auth, <<auth>>)
        ELSE IF r.body = JSUndefined
          THEN Reject(r, 500, "Internal server error", <<"Server error: ", "TypeError">>)
        ELSE LET temp == ParseFloat(r.body.temperature)
                 hum == ParseFloat(r.body.humidity)
             IN IF IsNaN(temp) \/ IsNaN(hum)
                  THEN Reject(r, 400, "Invalid data types", <<"Invalid data types">>)
                  ELSE Accept(r, temp, hum, suffix)

Submit(r, suffix) ==
  /\ phase = "running"
  /\ LET auth == AuthFailure(r.apikey, API_KEY)
     IN IF auth # "" THEN Reject(r, 401, auth, <<auth>>)
        \* line 133: destructuring a body that is undefined throws a TypeError,
        \* which the catch of lines 208-215 turns into a 500
        ELSE IF r.body = JSUndefined
          THEN Reject(r, 500, "Internal server error", <<"Server error: ", "TypeError">>)
        ELSE IF MissingFields(r.body)
          THEN Reject(r, 400, "Missing required fields", <<"Missing required fields">>)
        ELSE LET temp == ParseFloat(r.body.temperature)
                 hum == ParseFloat(r.body.humidity)
             IN IF IsNaN(temp) \/ IsNaN(hum)
                  THEN Reject(r, 400, "Invalid data types", <<"Invalid data types">>)
                  ELSE Accept(r, temp, hum, suffix)

(***************************************************************************)
(* GET /api/data: lines 233-261.                                           *)
(***************************************************************************)
\* the query string of GET /api/data; a parameter that is given is a string
ReadingsQuery(device_id, limit, offset) ==
  [device_id |-> device_id, limit |-> limit, offset |-> offset]

\* a destructuring default: it replaces undefined only
OrDefault(v, d) == IF v = JSUndefined THEN d ELSE v

\* sensorData.filter(entry => entry.device_id === device_id)
FilterByDevice(store, device_id) == SelectSeq(store, LAMBDA e : e.device_id = device_id)

\* QueryReadings without the Math.min of line 246: the limit is not clamped
QueryReadingsNoClamp(store, q) ==
  LET limit == OrDefault(q.limit, JSNum(DefaultLimit))
      offset == OrDefault(q.offset, JSNum(DefaultOffset))
      filteredData == IF Truthy(q.device_id) THEN FilterByDevice(store, q.device_id)
                      ELSE store
      startIndex == ParseInt(offset)
      limitNum == ParseInt(limit)
      paginatedData == Slice(filteredData, startIndex, JSAdd(startIndex, limitNum))
  IN [status |-> 200, success |-> TRUE, total |-> Len(filteredData),
      returned |-> Len(paginatedData), offset |-> startIndex, limit |-> limitNum,
      data |-> Reverse(paginatedData)]

\* QueryReadings slicing sensorData where line 247 slices filteredData
QueryReadingsPageOfStore(store, q) ==
  LET limit == OrDefault(q.limit, JSNum(DefaultLimit))
      offset == OrDefault(q.offset, JSNum(DefaultOffset))
      filteredData == IF Truthy(q.device_id) THEN FilterByDevice(store, q.device_id)
                      ELSE store
      startIndex == ParseInt(offset)
      limitNum == JSMin(ParseInt(limit), JSNum(MaxLimit))
      paginatedData == Slice(store, startIndex, JSAdd(startIndex, limitNum))
  IN [status |-> 200, success |-> TRUE, total |-> Len(filteredData),
      returned |-> Len(paginatedData), offset |-> startIndex, limit |-> limitNum,
      data |-> Reverse(paginatedData)]

\* lines 235-256: the response to a query
QueryReadings(store, q) ==
  LET limit == OrDefault(q.limit, JSNum(DefaultLimit))
      offset == OrDefault(q.offset, JSNum(DefaultOffset))
      filteredData == IF Truthy(q.device_id) THEN FilterByDevice(store, q.device_id)
                      ELSE store
      startIndex == ParseInt(offset)
      limitNum == JSMin(ParseInt(limit), JSNum(MaxLimit))
      paginatedData == Slice(filteredData, startIndex, JSAdd(startIndex, limitNum))
  IN [status |-> 200, success |-> TRUE, total |-> Len(filteredData),
      returned |-> Len(paginatedData), offset |-> startIndex, limit |-> limitNum,
      data |-> Reverse(paginatedData)]

ListReadings(q) ==
  /\ phase = "running"
  /\ req' = [route |-> "GET /api/data", query |-> q]
  /\ res' = QueryReadings(sensorData, q)
  /\ recorded' = <<>>
  /\ UNCHANGED <<phase, API_KEY, now, devices, sensorData, connectionLogs, accepted,
                 cleaned>>

(***************************************************************************)
(* GET /api/devices, /api/logs, /api/stats: lines 219-230, 264-308.        *)
(***************************************************************************)
ListDevices ==
  /\ phase = "running"
  /\ req' = [route |-> "GET /api/devices"]
  /\ res' = [status |-> 200, success |-> TRUE, count |-> Cardinality(DOMAIN devices),
             devices |-> devices]
  /\ recorded' = <<>>
  /\ UNCHANGED <<phase, API_KEY, now, devices, sensorData, connectionLogs, accepted,
                 cleaned>>

\* RecentLogEntries with slice(0, 50) where line 269 has slice(-50)
RecentLogEntriesOldest(logs) == Reverse(Slice(logs, JSNum(0), JSNum(RecentLogs)))

\* connectionLogs.slice(-50).reverse()
RecentLogEntries(logs) == Reverse(Slice(logs, JSNum(0 - RecentLogs), JSNum(Len(logs))))

\* ListLogs reversing the log itself: connectionLogs.reverse().slice(0, 50)
ListLogsInPlace ==
  /\ phase = "running"
  /\ req' = [route |-> "GET /api/logs"]
  /\ res' = [status |-> 200, success |-> TRUE, count |-> Len(connectionLogs),
             logs |-> Slice(Reverse(connectionLogs), JSNum(0), JSNum(RecentLogs))]
  /\ connectionLogs' = Reverse(connectionLogs)
  /\ recorded' = <<>>
  /\ UNCHANGED <<phase, API_KEY, now, devices, sensorData, accepted, cleaned>>

ListLogs ==
  /\ phase = "running"
  /\ req' = [route |-> "GET /api/logs"]
  /\ res' = [status |-> 200, success |-> TRUE, count |-> Len(connectionLogs),
             logs |-> RecentLogEntries(connectionLogs)]
  /\ recorded' = <<>>
  /\ UNCHANGED <<phase, API_KEY, now, devices, sensorData, connectionLogs, accepted,
                 cleaned>>

\* sensorData.filter(entry => new Date(entry.received_at) > since)
ReceivedAfter(store, since) == SelectSeq(store, LAMBDA e : e.received_at > since)

\* Statistics with oneDayAgo where line 285 has oneHourAgo
StatisticsHourAsDay(devs, store, t) ==
  LET oneDayAgo == t - OneDay
  IN [total_devices |-> Cardinality(DOMAIN devs),
      total_data_points |-> Len(store),
      data_last_hour |-> Len(ReceivedAfter(store, oneDayAgo)),
      data_last_24h |-> Len(ReceivedAfter(store, oneDayAgo)),
      latest_entry |-> IF Len(store) > 0 THEN <<store[Len(store)]>> ELSE <<>>,
      server_uptime |-> t]

\* lines 280-302.  The process starts at time 0, so process.uptime() is the
\* time t of the request; memory_usage is left out.
Statistics(devs, store, t) ==
  LET oneHourAgo == t - OneHour
      oneDayAgo == t - OneDay
  IN [total_devices |-> Cardinality(DOMAIN devs),
      total_data_points |-> Len(store),
      data_last_hour |-> Len(ReceivedAfter(store, oneHourAgo)),
      data_last_24h |-> Len(ReceivedAfter(store, oneDayAgo)),
      latest_entry |-> IF Len(store) > 0 THEN <<store[Len(store)]>> ELSE <<>>,
      server_uptime |-> t]

GetStats ==
  /\ phase = "running"
  /\ req' = [route |-> "GET /api/stats"]
  /\ res' = [status |-> 200, success |-> TRUE,
             statistics |-> Statistics(devices, sensorData, now)]
  /\ recorded' = <<>>
  /\ UNCHANGED <<phase, API_KEY, now, devices, sensorData, connectionLogs, accepted,
                 cleaned>>

(***************************************************************************)
(* DELETE /api/data/cleanup: lines 311-336.                                *)
(***************************************************************************)
\* CleanupKeeps putting the readings back newest first
CleanupKeepsNewestFirst(store, days, t) ==
  LET n == ParseInt(OrDefault(days, JSNum(DefaultDays)))
  IN IF IsNaN(n) THEN <<>> ELSE Reverse(ReceivedAfter(store, t - n.num * OneDay))

\* lines 313-320: the readings that stay.  cutoffDate is now minus
\* parseInt(days) days; when days is no number the date is invalid, every
\* comparison with it is false and no reading stays.
CleanupKeeps(store, days, t) ==
  LET n == ParseInt(OrDefault(days, JSNum(DefaultDays)))
  IN IF IsNaN(n) THEN <<>> ELSE ReceivedAfter(store, t - n.num * OneDay)

Cleanup(days) ==
  /\ phase = "running"
  /\ LET originalLength == Len(sensorData)
         filteredData == CleanupKeeps(sensorData, days, now)
         deletedCount == originalLength - Len(filteredData)
     IN /\ sensorData' = filteredData
        /\ res' = [status |-> 200, success |-> TRUE, deleted |-> deletedCount,
                   days |-> OrDefault(days, JSNum(DefaultDays)),
                   remaining |-> Len(filteredData)]
  /\ req' = [route |-> "DELETE /api/data/cleanup", query |-> [days |-> days]]
  /\ recorded' = <<>>
  /\ cleaned' = TRUE
  /\ UNCHANGED <<phase, API_KEY, now, devices, connectionLogs, accepted>>

(***************************************************************************)
(* Specifications.                                                         *)
(***************************************************************************)
\* a request of the basic set
SubmitBasic ==
  /\ Len(accepted) < MaxAccepted
  /\ \E r \in BasicRequests, suffix \in NarrowSuffixes : Submit(r, suffix)

\* a request of the narrow set
SubmitNarrow ==
  /\ Len(accepted) < MaxAccepted
  /\ \E r \in NarrowRequests, suffix \in NarrowSuffixes : Submit(r, suffix)

\* a request of the wide set, while the log is short
SubmitWide ==
  /\ Len(connectionLogs) < MaxIngestLogs
  /\ \E r \in WideRequests, suffix \in RandSuffixes : Submit(r, suffix)

\* a request of the queried set, while the store is being filled
SubmitQueried ==
  /\ Len(accepted) < MaxQueried
  /\ \E r \in QueriedRequests, suffix \in NarrowSuffixes : Submit(r, suffix)

DeviceFilters == {JSUndefined, JSStr(""), JSStr(KnownDevice), JSStr(NewDevice)}

\* GET /api/data?device_id=..., with the default offset and limit
ListReadingsDefault ==
  \E d \in DeviceFilters : ListReadings(ReadingsQuery(d, JSUndefined, JSUndefined))

\* GET /api/data with any offset and limit up to one past the capacity
Digits == <<"0", "1", "2", "3", "4", "5", "6", "7", "8", "9">>
QueryNumber(n) == JSChars(<<Digits[n + 1]>>)
QueryNumbers == {JSUndefined} \cup {QueryNumber(n) : n \in 0..(StoreCapacity + 1)}

ListReadingsAny ==
  \E d \in DeviceFilters, l \in QueryNumbers, o \in QueryNumbers :
    ListReadings(ReadingsQuery(d, l, o))

CleanupAny == \E days \in {JSUndefined, QueryNumber(0), QueryNumber(1)} : Cleanup(days)

\* The whole service under the basic request set.
Next ==
  \/ Startup
  \/ Tick
  \/ SubmitBasic
  \/ ListReadingsDefault
  \/ ListDevices
  \/ ListLogs
  \/ GetStats
  \/ CleanupAny

Spec == Init /\ [][Next]_vars

\* The store and the log under the narrow request set.
NextStore ==
  \/ Startup
  \/ SubmitNarrow
  \/ ListLogs

SpecStore == Init /\ [][NextStore]_vars

\* The ingestion handler under the wide request set.
NextIngest ==
  \/ Startup
  \/ SubmitWide

SpecIngest == Init /\ [][NextIngest]_vars

\* The query handler under every offset and limit.
NextQuery ==
  \/ Startup
  \/ SubmitQueried
  \/ ListReadingsAny

SpecQuery == Init /\ [][NextQuery]_vars

\* a request of the registry set
SubmitRegistry ==
  /\ Len(accepted) < MaxRegistered
  /\ \E r \in RegistryRequests, suffix \in NarrowSuffixes : Submit(r, suffix)

\* The registry under submits with and without a device_name, as time passes.
NextRegistry ==
  \/ Startup
  \/ Tick
  \/ SubmitRegistry
  \/ ListDevices
  \/ CleanupAny

SpecRegistry == Init /\ [][NextRegistry]_vars

(***************************************************************************)
(* Properties.                                                             *)
(***************************************************************************)
\* the last n elements of a sequence
LastN(s, n) == SubSeq(s, Len(s) - n + 1, Len(s))

IsSubmit(r) == r.route = "POST /api/data"

\* C1: whatever submit, list, statistics and cleanup requests were handled,
\* the reading store holds at most StoreCapacity readings.
C1_StoreBounded == Len(sensorData) <= StoreCapacity

\* C1 witness: the store is full after more readings were accepted than it
\* holds and after a cleanup request.
C1_Witness ==
  /\ Len(sensorData) = StoreCapacity
  /\ Len(accepted) > StoreCapacity
  /\ cleaned

\* C2: as long as no cleanup was requested, after N accepted submits the store
\* holds min(N, StoreCapacity) readings, and they are the last accepted ones,
\* in the order of their acceptance.
C2_FifoLaw ==
  ~cleaned =>
    LET n == Len(accepted)
        k == Min(n, StoreCapacity)
    IN /\ Len(sensorData) = k
       /\ \A i \in 1..k : sensorData[i] = accepted[n - k + i]

\* C2 witness: more readings were accepted than the store holds, the evicted
\* one differing in content from the ones kept.
C2_Witness ==
  /\ ~cleaned
  /\ Len(accepted) = StoreCapacity + 1
  /\ \A i \in 1..Len(sensorData) : sensorData[i] # accepted[1]
  /\ sensorData[1].temperature.num > sensorData[StoreCapacity].temperature.num

\* C3: the connection log never holds more than LogCapacity entries, and every
\* step leaves in it the newest entries of the old log followed by what the
\* step recorded: past the capacity the oldest entries are the ones dropped.
C3_LogFifo ==
  /\ [](Len(connectionLogs) <= LogCapacity)
  /\ [][LET all == connectionLogs \o recorded'
        IN connectionLogs' = LastN(all, Min(Len(all), LogCapacity))]_vars

\* C3 witness: one submit recorded three entries (WARNING, INFO, SUCCESS) into
\* a log that held at least two, so entries were dropped during the call.
C3_Witness ==
  /\ Len(recorded) = 3
  /\ Len(accepted) >= 3
  /\ Len(connectionLogs) = LogCapacity
  /\ LastN(connectionLogs, 3) = recorded

\* the last element of a nonempty sequence
Last(s) == s[Len(s)]

\* the statuses of a sequence of log entries
Statuses(entries) == [i \in 1..Len(entries) |-> entries[i].status]

\* a step that handles a submit request
SubmitStep == phase = "running" /\ now' = now /\ IsSubmit(req')

\* the last request was rejected with 401 and recorded the one ERROR entry msg
Rejected401(msg) ==
  /\ res.status = 401
  /\ Len(recorded) = 1
  /\ recorded[1].status = "ERROR"
  /\ recorded[1].message = <<msg>>

\* a payload with a device id, a sensor label and two numbers
ValidPayload(b) ==
  /\ b # JSUndefined
  /\ b.device_id \in {JSStr(KnownDevice), JSStr(NewDevice)}
  /\ b.sensor = JSStr("dht11")
  /\ b.temperature.kind = "number"
  /\ b.humidity.kind = "number"

\* C4 as stated: every submit call records exactly one log entry.
C4_ExactlyOnce == IsSubmit(req) => Len(recorded) = 1

\* C4 amended: a rejected submit records exactly one entry, an ERROR; an
\* accepted submit records one WARNING entry if and only if a value is out of
\* range, then one INFO entry if and only if it registered the device, then
\* exactly one SUCCESS entry: one to three entries for one call.
C4_OncePerStep ==
  [][SubmitStep =>
       IF res'.status = 200
         THEN LET e == Last(sensorData')
                  warn == \/ e.temperature.num < TempMin
                          \/ e.temperature.num > TempMax
                          \/ e.humidity.num < HumMin
                          \/ e.humidity.num > HumMax
                  isNew == devices' # devices
              IN Statuses(recorded') =
                   (IF warn THEN <<"WARNING">> ELSE <<>>)
                   \o (IF isNew THEN <<"INFO">> ELSE <<>>)
                   \o <<"SUCCESS">>
         ELSE Statuses(recorded') = <<"ERROR">>]_vars

\* C4 witness: one accepted submit has recorded three entries.
C4_Witness ==
  /\ IsSubmit(req)
  /\ res.status = 200
  /\ Statuses(recorded) = <<"WARNING", "INFO", "SUCCESS">>

\* C5: every submit call records at least one entry, and the last one, which
\* is then the newest entry of the log, is a SUCCESS entry naming the device
\* exactly when the call answered 200 and appended a reading, and an ERROR
\* entry exactly when it answered 401, 400 or 500, leaving the store alone.
C5_Mirrored ==
  [][SubmitStep =>
       /\ Len(recorded') >= 1
       /\ Last(connectionLogs') = Last(recorded')
       /\ res'.status \in {200, 400, 401, 500}
       /\ LET last == Last(recorded')
              appended ==
                /\ sensorData' # <<>>
                /\ Last(sensorData').id = res'.entry_id
                /\ Last(sensorData').device_id = req'.body.device_id
                /\ LET pushed == Append(sensorData, Last(sensorData'))
                   IN sensorData' \in {pushed, Tail(pushed)}
          IN /\ last.status = "SUCCESS" <=> (res'.status = 200 /\ appended)
             /\ last.status = "SUCCESS" =>
                  last.message = <<"Data received from ", req'.body.device_id.str>>
             /\ last.status = "ERROR" <=>
                  (res'.status \in {400, 401, 500} /\ sensorData' = sensorData)]_vars

\* C5 witness: a request without a body was answered 500 and mirrored as ERROR.
C5_Witness ==
  /\ IsSubmit(req)
  /\ res.status = 500
  /\ Statuses(recorded) = <<"ERROR">>
  /\ Last(connectionLogs) = Last(recorded)

\* C6 as stated: with a secret configured, no credential yields 401 and
\* 'Missing API key', a credential other than the secret yields 401 and
\* 'Invalid API key', and the secret with a valid payload yields 200.
C6_AuthAsStated ==
  (IsSubmit(req) /\ Truthy(API_KEY)) =>
    /\ req.apikey = JSUndefined => Rejected401("Missing API key")
    /\ (req.apikey # JSUndefined /\ req.apikey # API_KEY) => Rejected401("Invalid API key")
    /\ (req.apikey = API_KEY /\ ValidPayload(req.body)) => res.status = 200

\* C6 amended: an absent or empty credential yields 401 and 'Missing API key',
\* a non-empty credential other than the secret yields 401 and 'Invalid API
\* key', the secret with a valid payload yields 200; a request that failed the
\* check changes neither the store nor the registry.
C6_Auth ==
  [][(SubmitStep /\ Truthy(API_KEY)) =>
       LET k == req'.apikey
           empty == k \in {JSUndefined, JSStr("")}
           rejected(msg) ==
             /\ res'.status = 401
             /\ res'.error = msg
             /\ Len(recorded') = 1
             /\ recorded'[1].status = "ERROR"
             /\ recorded'[1].message = <<msg>>
       IN /\ empty => rejected("Missing API key")
          /\ (~empty /\ k # API_KEY) => rejected("Invalid API key")
          /\ (k = API_KEY /\ ValidPayload(req'.body)) => res'.status = 200
          /\ k # API_KEY => (sensorData' = sensorData /\ devices' = devices)]_vars

\* C6 witness: a request with an empty X-API-Key header was rejected as one
\* without a key.
C6_Witness ==
  /\ IsSubmit(req)
  /\ req.apikey = JSStr("")
  /\ Rejected401("Missing API key")

C8_PresenceCheck ==
  (IsSubmit(req) /\ req.apikey = API_KEY /\ req.body # JSUndefined) =>
    ((res.status = 400 /\ res.error = "Missing required fields")
       <=> \/ req.body.device_id = JSUndefined
           \/ req.body.sensor = JSUndefined
           \/ req.body.temperature = JSUndefined
           \/ req.body.humidity = JSUndefined)

IsListReadings(r) == r.route = "GET /api/data"

\* the number a query parameter denotes, d when the parameter is absent
QueryInt(v, d) == IF v = JSUndefined THEN d ELSE CHOOSE n \in 0..9 : QueryNumber(n) = v

\* the stored readings of a device, oldest first
ReadingsOf(d) == SelectSeq(sensorData, LAMBDA e : e.device_id = d)

\* the response res is the page the pagination law prescribes for the
\* readings matches, offset o and limit l
IsPage(matches, o, l) ==
  LET F == Len(matches)
      n == Min(Max(F - o, 0), Min(l, MaxLimit))
  IN /\ res.total = F
     /\ res.returned = Len(res.data)
     /\ Len(res.data) = n
     /\ \A i \in 1..n : res.data[i] = matches[o + n + 1 - i]

\* C9 as stated: the page is made of the readings whose device_id equals the
\* filter, of all readings only if no filter is given.
C9_PaginationAsStated ==
  IsListReadings(req) =>
    LET d == req.query.device_id
    IN IsPage(IF d = JSUndefined THEN sensorData ELSE ReadingsOf(d),
              QueryInt(req.query.offset, DefaultOffset),
              QueryInt(req.query.limit, DefaultLimit))

\* C9 amended: an empty filter counts as no filter.  For a non-empty filter d
\* the matches are the readings whose device_id is d, otherwise all readings;
\* the response has total = F, returned = the number of items, and the items
\* are min(max(F - o, 0), min(l, MaxLimit)) in number: the matches at the
\* oldest-first positions o .. o + min(l, MaxLimit) - 1, newest first.
C9_Pagination ==
  IsListReadings(req) =>
    LET d == req.query.device_id
    IN IsPage(IF d \in {JSUndefined, JSStr("")} THEN sensorData ELSE ReadingsOf(d),
              QueryInt(req.query.offset, DefaultOffset),
              QueryInt(req.query.limit, DefaultLimit))

\* C9 witness: a filtered query past the limit: three matches, offset 1 and
\* limit 3 return the two newest, newest first.
C9_Witness ==
  /\ IsListReadings(req)
  /\ req.query = ReadingsQuery(JSStr(NewDevice), QueryNumber(3), QueryNumber(1))
  /\ res.total = 3
  /\ res.returned = MaxLimit
  /\ res.data[1] = sensorData[3]
  /\ res.data[2] = sensorData[2]
  /\ res.data[1] # res.data[2]

\* a step that answers GET /api/data?device_id=d right after the submit of a
\* reading of d was accepted
RoundTripStep ==
  /\ IsSubmit(req)
  /\ res.status = 200
  /\ IsListReadings(req')
  /\ req'.query = ReadingsQuery(req.body.device_id, JSUndefined, JSUndefined)

\* the item e of a page is the reading the last submit stored: it has the id
\* the submit answered and the numbers the submitted values denote
IsSubmitted(e) ==
  /\ e.id = res.entry_id
  /\ e.device_id = req.body.device_id
  /\ e.temperature = ParseFloat(req.body.temperature)
  /\ e.humidity = ParseFloat(req.body.humidity)

\* C10 as stated: the page of the query that follows an accepted submit
\* contains the submitted reading.
C10_RoundTripAsStated ==
  [][RoundTripStep => \E i \in 1..Len(res'.data) : IsSubmitted(res'.data[i])]_vars

\* C10 amended: the page contains the submitted reading, as its first item,
\* provided the store holds at most DefaultLimit readings of the device;
\* when it holds more, the page is the DefaultLimit oldest readings of the
\* device, newest first.
C10_RoundTrip ==
  [][RoundTripStep =>
       LET matches == ReadingsOf(req.body.device_id)
           F == Len(matches)
       IN /\ res'.total = F
          /\ F <= DefaultLimit =>
               /\ Len(res'.data) = F
               /\ IsSubmitted(res'.data[1])
               /\ res'.data[1] = Last(sensorData)
          /\ F > DefaultLimit =>
               /\ Len(res'.data) = DefaultLimit
               /\ \A i \in 1..DefaultLimit : res'.data[i] = matches[DefaultLimit + 1 - i]]_vars

\* C10 witness: the query for the device of the reading accepted last has
\* returned that reading from a store that also holds another device's.
C10_Witness ==
  /\ IsListReadings(req)
  /\ accepted # <<>>
  /\ req.query = ReadingsQuery(Last(accepted).device_id, JSUndefined, JSUndefined)
  /\ Len(sensorData) > 1
  /\ Last(sensorData) = Last(accepted)
  /\ res.total = 1
  /\ res.data = <<Last(accepted)>>
  /\ res.data[1].temperature = JSNum(22)

\* C11: no step changes the registry entry of a device that is registered,
\* pre-registered or auto-registered: its name, location, registration
\* timestamp and autoRegistered flag stay what they were, whatever
\* device_name a later submit carries, and no step removes a device.
C11_Idempotent ==
  [][\A k \in DOMAIN devices : k \in DOMAIN devices' /\ devices'[k] = devices[k]]_vars

\* C11 witness: a device that was auto-registered under its fallback name at
\* an earlier time has submitted again, now with a device_name, and the
\* registry still has the entry of the first submit; a cleanup has run too.
C11_Witness ==
  /\ IsSubmit(req)
  /\ res.status = 200
  /\ req.body.device_id = JSStr(NewDevice)
  /\ req.body.device_name = JSStr("Probe")
  /\ NewDevice \in DOMAIN devices
  /\ devices[NewDevice] = [name |-> <<"Device-", NewDevice>>, location |-> "Unknown",
                           registeredAt |-> 0, autoRegistered |-> TRUE]
  /\ now > 0
  /\ cleaned

IsListDevices(r) == r.route = "GET /api/devices"

\* C12 as stated: an accepted submit for a device id that is no key of the
\* registry registers it with the name device_name, or 'Device-<id>' when no
\* name is given, the location 'Unknown', the current time and autoRegistered
\* true, and records an INFO entry naming it; the answer to GET /api/devices
\* is the registry, auto-registered devices included, with the number of its
\* keys as count.
C12_AutoRegistration ==
  /\ [][(SubmitStep /\ res'.status = 200 /\ req'.body.device_id.str \notin DOMAIN devices) =>
          LET b == req'.body
              k == b.device_id.str
          IN /\ k \in DOMAIN devices'
             /\ devices'[k] =
                  [name |-> IF b.device_name = JSUndefined THEN <<"Device-", k>>
                            ELSE <<b.device_name.str>>,
                   location |-> "Unknown", registeredAt |-> now, autoRegistered |-> TRUE]
             /\ \E i \in 1..Len(recorded') :
                  /\ recorded'[i].status = "INFO"
                  /\ recorded'[i].message = <<"New device registered: ", k>>]_vars
  /\ [](IsListDevices(req) =>
          /\ res.count = Cardinality(DOMAIN devices)
          /\ res.devices = devices)
  /\ [][\A k \in DOMAIN devices :
          "autoRegistered" \in DOMAIN devices[k] =>
            (k \in DOMAIN devices' /\ devices'[k].autoRegistered)]_vars

\* C18 as stated: the device_id of every stored reading is a key of the
\* registry, and the reading's device_meta is the registry entry of that key
\* (which, by C11, is the entry the key had when the reading was inserted).
C18_Integrity ==
  \A i \in 1..Len(sensorData) :
    LET e == sensorData[i]
        k == e.device_id.str
    IN /\ k \in DOMAIN devices
       /\ e.device_meta = devices[k]

IsCleanup(r) == r.route = "DELETE /api/data/cleanup"

\* a step that handles a cleanup request
CleanupStep == phase = "running" /\ now' = now /\ IsCleanup(req')

\* C13 as stated: cleanup(days), days a non-negative integer or absent (then
\* DefaultDays), with cutoff = now - days, removes exactly the readings
\* received strictly before the cutoff and keeps the others, one received at
\* the cutoff included, in their order; it reports original size - new size
\* as deleted and the new size as remaining.
C13_CleanupAsStated ==
  [][CleanupStep =>
       LET days == QueryInt(req'.query.days, DefaultDays)
           cutoff == now - days * OneDay
       IN /\ sensorData' = SelectSeq(sensorData, LAMBDA e : ~(e.received_at < cutoff))
          /\ res'.deleted = Len(sensorData) - Len(sensorData')
          /\ res'.remaining = Len(sensorData')]_vars

IsStats(r) == r.route = "GET /api/stats"

\* a step that handles a statistics request
StatsStep == phase = "running" /\ now' = now /\ IsStats(req')

\* the number of stored readings received less than span before now
ReceivedWithin(span) ==
  Cardinality({i \in 1..Len(sensorData) : now - sensorData[i].received_at < span})

\* C14: the statistics report the number of registry keys, the size of the
\* store, the number of stored readings received within the last hour and
\* within the last day (hence hour <= day <= total), and as latest entry the
\* reading at the tail of the store, which is the one accepted last if that
\* is still stored, or none when the store is empty.
C14_Statistics ==
  [][StatsStep =>
       LET s == res'.statistics
       IN /\ s.total_devices = Cardinality(DOMAIN devices)
          /\ s.total_data_points = Len(sensorData)
          /\ s.data_last_hour = ReceivedWithin(OneHour)
          /\ s.data_last_24h = ReceivedWithin(OneDay)
          /\ s.data_last_hour <= s.data_last_24h
          /\ s.data_last_24h <= s.total_data_points
          /\ sensorData = <<>> => s.latest_entry = <<>>
          /\ sensorData # <<>> => s.latest_entry = <<Last(sensorData)>>
          /\ (\E i \in 1..Len(sensorData) : sensorData[i] = Last(accepted)) =>
               s.latest_entry = <<Last(accepted)>>]_vars

\* C14 witness: of three stored readings one was received within the last
\* hour and two within the last day, after a device was auto-registered.
C14_Witness ==
  /\ IsStats(req)
  /\ res.statistics.total_devices = 3
  /\ res.statistics.total_data_points = 3
  /\ res.statistics.data_last_hour = 1
  /\ res.statistics.data_last_24h = 2
  /\ res.statistics.latest_entry = <<Last(accepted)>>
  /\ Last(accepted).received_at = now

\* a field value that is a string with no leading digit
NonNumeric(v) == v.kind = "string" /\ "chars" \in DOMAIN v /\ ~IsDigit(Head(v.chars))

\* C15: the checks of a submit run in the order key, presence of the fields,
\* numbers, and the first one that fails decides the answer: a credential
\* that is absent, empty or not the secret yields 401 whatever the payload;
\* with the secret, an absent field yields 400 'Missing required fields'
\* whatever the other fields are; with all fields present, a temperature or
\* humidity that is no number yields 400 'Invalid data types'.  A request
\* answered 401 or 400 leaves the store and the registry as they were.
C15_CheckOrder ==
  [][SubmitStep =>
       LET k == req'.apikey
           b == req'.body
           authFails == k \in {JSUndefined, JSStr("")} \/ k # API_KEY
           absent == \/ b.device_id = JSUndefined
                     \/ b.sensor = JSUndefined
                     \/ b.temperature = JSUndefined
                     \/ b.humidity = JSUndefined
           present == /\ Truthy(b.device_id)
                      /\ Truthy(b.sensor)
                      /\ b.temperature # JSUndefined
                      /\ b.humidity # JSUndefined
       IN /\ authFails => res'.status = 401
          /\ (~authFails /\ b # JSUndefined /\ absent) =>
               (res'.status = 400 /\ res'.error = "Missing required fields")
          /\ (~authFails /\ b # JSUndefined /\ present
                /\ (NonNumeric(b.temperature) \/ NonNumeric(b.humidity))) =>
               (res'.status = 400 /\ res'.error = "Invalid data types")
          /\ res'.status \in {400, 401} =>
               (sensorData' = sensorData /\ devices' = devices /\ accepted' = accepted)]_vars

\* C15 witness: after a reading was stored, a request with a wrong credential
\* and no device_id was answered 401, the store keeping its one reading.
C15_Witness ==
  /\ IsSubmit(req)
  /\ req.apikey = JSStr("wrong")
  /\ req.body # JSUndefined
  /\ req.body.device_id = JSUndefined
  /\ res.status = 401
  /\ Len(sensorData) = 1
  /\ Len(connectionLogs) = 2

\* a field value that is a number or a string of digits, and the number it denotes
Numeric(v) == v.kind = "number" \/ (v.kind = "string" /\ "chars" \in DOMAIN v /\ ~NonNumeric(v))
NumberOf(v) == IF v.kind = "number" THEN v.num ELSE DigitsValue(v.chars, 0)

IsSubsequence(a, b) ==
  \E f \in [1..Len(a) -> 1..Len(b)] :
    /\ \A i \in 1..Len(a) : a[i] = b[f[i]]
    /\ \A i, j \in 1..Len(a) : i < j => f[i] < f[j]

\* C17: an accepted submit appends exactly one reading, the one it answers,
\* at the tail of the store, dropping the head if and only if the store was
\* full; a cleanup leaves a subsequence of the store; every other step leaves
\* the store as it is.  So a stored reading never changes, the order of the
\* stored readings never changes, and a reading leaves the store only from
\* the head on an append past the capacity or by a cleanup.
C17_Lifecycle ==
  [][IF SubmitStep /\ res'.status = 200
       THEN /\ accepted' = Append(accepted, Last(sensorData'))
            /\ Last(sensorData').id = res'.entry_id
            /\ sensorData' = IF Len(sensorData) < StoreCapacity
                               THEN Append(sensorData, Last(sensorData'))
                               ELSE Tail(Append(sensorData, Last(sensorData')))
     ELSE IF CleanupStep
       THEN IsSubsequence(sensorData', sensorData) /\ accepted' = accepted
     ELSE sensorData' = sensorData /\ accepted' = accepted]_vars

\* C17 witness: of four accepted readings the first left by eviction and two
\* more by a cleanup, which kept the newest.
C17_Witness ==
  /\ IsCleanup(req)
  /\ Len(accepted) = StoreCapacity + 1
  /\ res.deleted = 2
  /\ sensorData = <<Last(accepted)>>

IsListLogs(r) == r.route = "GET /api/logs"

\* C19: for a log of S entries GET /api/logs answers count = S, the size of
\* the whole log, and exactly the last min(RecentLogs, S) entries of the log,
\* newest first.
C19_RecentLogs ==
  IsListLogs(req) =>
    LET S == Len(connectionLogs)
        n == Min(RecentLogs, S)
    IN /\ res.count = S
       /\ Len(res.logs) = n
       /\ \A i \in 1..n : res.logs[i] = connectionLogs[S + 1 - i]

\* C19 witness: the log is full and the answer holds its two newest entries,
\* which differ, while count is the size of the log.
C19_Witness ==
  /\ IsListLogs(req)
  /\ Len(connectionLogs) = LogCapacity
  /\ res.count = LogCapacity
  /\ Len(res.logs) = RecentLogs
  /\ res.logs[1] = Last(connectionLogs)
  /\ res.logs[1] # res.logs[2]
  /\ res.logs[2] # connectionLogs[1]

\* a step that handles one of the four read requests
ReadStep ==
  /\ phase = "running"
  /\ now' = now
  /\ IsListReadings(req') \/ IsListDevices(req') \/ IsListLogs(req') \/ IsStats(req')

\* C20 as stated: a read request (GET /api/data, /api/devices, /api/logs,
\* /api/stats) leaves the store, the registry and the log as they were, and
\* the same read request handled again with no write in between is answered
\* the same.
C20_ReadsAsStated ==
  [][ReadStep =>
       /\ sensorData' = sensorData
       /\ devices' = devices
       /\ connectionLogs' = connectionLogs
       /\ req' = req => res' = res]_vars

\* C20 amended: a read request leaves the store, the registry and the log as
\* they were, in content and in order, and records nothing.  The same
\* request to GET /api/data, /api/devices or /api/logs handled again with no
\* write in between is answered the same; the statistics handled again are
\* the same in total_devices, total_data_points and latest_entry, while
\* data_last_hour and data_last_24h, which count from the time of the
\* request, can only have dropped, and server_uptime can only have grown.
C20_ReadsArePure ==
  [][ReadStep =>
       /\ sensorData' = sensorData
       /\ devices' = devices
       /\ connectionLogs' = connectionLogs
       /\ recorded' = <<>>
       /\ (req' = req /\ ~IsStats(req')) => res' = res
       /\ (req' = req /\ IsStats(req')) =>
            LET s == res.statistics
                s2 == res'.statistics
            IN /\ s2.total_devices = s.total_devices
               /\ s2.total_data_points = s.total_data_points
               /\ s2.latest_entry = s.latest_entry
               /\ s2.data_last_hour <= s.data_last_hour
               /\ s2.data_last_24h <= s.data_last_24h
               /\ s2.server_uptime >= s.server_uptime]_vars

\* C20 witness: the log was listed, its two newest entries newest first,
\* while the log and a store of several readings are in their insertion order.
C20_Witness ==
  /\ IsListLogs(req)
  /\ Len(connectionLogs) >= 2
  /\ res.logs = <<connectionLogs[Len(connectionLogs)], connectionLogs[Len(connectionLogs) - 1]>>
  /\ res.logs[1].status = "SUCCESS"
  /\ res.logs[2].status = "INFO"
  /\ Len(sensorData) >= 2
  /\ sensorData = LastN(accepted, Len(sensorData))
  /\ sensorData[1] # sensorData[2]

====
